---- MODULE Spec2Model ----
(***************************************************************************)
(* app.py: the Streamlit script of the CGHS wellness-center dashboard.     *)
(* The script is executed top to bottom on every (re)run; each action      *)
(* below is one statement group of the script, pc is the position in it.   *)
(*                                                                         *)
(* Numbers.  StandardScaler, KMeans and KneeLocator work on float64.  The  *)
(* model keeps every value exact by carrying a common positive unit:       *)
(*   X_scaled.num[j] / sqrt(X_scaled.unit2)  is the scaled value of row j, *)
(*   inertia_ is kept in units of 1 / (Lcm * sigma^2).                     *)
(* Every comparison the libraries make is between values of one unit, so   *)
(* it is made on the integer numerators.                                   *)
(***************************************************************************)
EXTENDS Integers, Sequences, FiniteSets, TLC

VARIABLES
    uploaded_excel,   \* st.sidebar.file_uploader result (.xlsx), line 16
    uploaded_csv,     \* st.sidebar.file_uploader result (.csv), line 17
    centers_df,       \* line 37
    beneficiaries_df, \* line 37
    grouped_df,       \* line 84 (and its 'Cluster' column, line 122)
    X_scaled,         \* line 88
    wcss,             \* the list built by calculate_wcss, lines 92-97
    kmeans,           \* the estimator fitted last, lines 94-95 and 121-122
    optimal_k,        \* line 114
    n_clusters,       \* line 118
    slider_state,     \* the value the user set on the sidebar slider, if any
    rng,              \* state of the generator used by the latest fit
    messages,         \* what st.info/warning/error/success have shown this run
    pc,               \* position in the script
    runs,             \* number of script runs of the session so far
    prev              \* what the previous run displayed (for run-to-run claims)

vars == <<uploaded_excel, uploaded_csv, centers_df, beneficiaries_df, grouped_df,
          X_scaled, wcss, kmeans, optimal_k, n_clusters, slider_state, rng,
          messages, pc, runs, prev>>

(***************************************************************************)
(* Bounds of the model.                                                    *)
(***************************************************************************)
MaxCenters == 10     \* most distinct centers in an uploaded beneficiaries file
MaxMod == 10         \* most distinct load levels in an uploaded file
MaxSmallLen == 4     \* longest beneficiaries file enumerated row by row
MaxRuns == 2         \* script runs per session
MaxAssignN == 4      \* most entities handed to the cluster assigner alone
MaxAssignCount == 3  \* largest entity count handed to the assigner alone

(***************************************************************************)
(* Program constants.                                                      *)
(***************************************************************************)
random_state == 42   \* KMeans(..., random_state=42)
SweepStop == 11      \* range(1, 11)
SliderMin == 2       \* min_value=2
SliderMax == 10      \* max_value=10
DefaultK == 3        \* value=optimal_k or 3

None == 0            \* Python's None where the code expects an int (all such ints are >= 1)
NaN == 0             \* a missing 'Wellness Center' cell (read_csv gives NaN); centers are 1, 2, ...

(***************************************************************************)
(* Generic helpers.                                                        *)
(***************************************************************************)
Abs(x) == IF x < 0 THEN -x ELSE x

MinOf(S) == CHOOSE x \in S : \A y \in S : x <= y

MaxOf(S) == CHOOSE x \in S : \A y \in S : y <= x

RECURSIVE SeqSum(_)
SeqSum(s) == IF s = <<>> THEN 0 ELSE Head(s) + SeqSum(Tail(s))

RECURSIVE SetToSortedSeq(_)
SetToSortedSeq(S) ==
    IF S = {} THEN <<>>
    ELSE LET m == MinOf(S) IN <<m>> \o SetToSortedSeq(S \ {m})

RECURSIVE Gcd(_, _)
Gcd(a, b) == IF b = 0 THEN a ELSE Gcd(b, a % b)

RECURSIVE LcmUpTo(_)
LcmUpTo(n) == IF n <= 1 THEN 1
              ELSE LET l == LcmUpTo(n - 1) IN (l * n) \div Gcd(l, n)

(***************************************************************************)
(* Column names are sequences of tokens; " " is a whitespace token.        *)
(***************************************************************************)
RECURSIVE LStrip(_)
LStrip(name) == IF name # <<>> /\ Head(name) = " " THEN LStrip(Tail(name)) ELSE name

RECURSIVE RStrip(_)
RStrip(name) ==
    IF name # <<>> /\ name[Len(name)] = " "
    THEN RStrip(SubSeq(name, 1, Len(name) - 1))
    ELSE name

\* str.strip()
Strip(name) == RStrip(LStrip(name))

WellnessCenter == <<"Wellness Center">>
City == <<"City">>

\* line 42: the names accepted for the center column
CenterAliases == {<<"Wellness Center">>, <<"wellnessCentreName">>,
                  <<"WellnessCentreName">>, <<"Center Name">>}

\* pd.DataFrame()
EmptyFrame == [columns |-> <<>>, rows |-> <<>>]

\* DataFrame.empty: some axis has length 0
IsEmpty(df) == Len(df.columns) = 0 \/ Len(df.rows) = 0

ColumnSet(df) == {df.columns[c] : c \in DOMAIN df.columns}

NoFile == [present |-> FALSE, readable |-> FALSE, columns |-> <<>>, rows |-> <<>>]

\* lines 20-34: load_data
StripColumns(file) ==
    [columns |-> [c \in DOMAIN file.columns |-> Strip(file.columns[c])],
     rows |-> file.rows]

load_data(excel_file, csv_file) ==
    IF ~excel_file.present \/ ~csv_file.present
    THEN [centers |-> EmptyFrame, beneficiaries |-> EmptyFrame, shown |-> <<>>]
    ELSE IF ~excel_file.readable \/ ~csv_file.readable
    THEN [centers |-> EmptyFrame, beneficiaries |-> EmptyFrame,
          shown |-> << <<"error", "Error loading data">> >>]
    ELSE [centers |-> StripColumns(excel_file),
          beneficiaries |-> StripColumns(csv_file), shown |-> <<>>]

\* lines 40-44: the first column whose stripped name is an alias is renamed
RenameCenter(df) ==
    IF IsEmpty(df) THEN df
    ELSE LET hits == {c \in DOMAIN df.columns : Strip(df.columns[c]) \in CenterAliases}
         IN IF hits = {} THEN df
            ELSE [df EXCEPT !.columns[MinOf(hits)] = WellnessCenter]

\* lines 47-58: check_required_columns
check_required_columns(df, required_columns, df_name) ==
    IF IsEmpty(df)
    THEN [ok |-> FALSE, shown |-> <<"warning", df_name, "is empty or not uploaded">>]
    ELSE IF required_columns \ ColumnSet(df) # {}
    THEN [ok |-> FALSE, shown |-> <<"error", df_name, "Missing required columns">>]
    ELSE [ok |-> TRUE, shown |-> <<>>]

(***************************************************************************)
(* line 84: groupby('Wellness Center').size().reset_index(name=...)        *)
(* groupby sorts the keys and (dropna=True) leaves NaN keys out.           *)
(***************************************************************************)
GroupKeysWithNaN(rows) == {rows[r] : r \in DOMAIN rows}

GroupKeys(rows) == {rows[r] : r \in DOMAIN rows} \ {NaN}

GroupSize(rows, key) == Cardinality({r \in DOMAIN rows : rows[r] = key})

groupby_size(rows) ==
    LET keys == SetToSortedSeq(GroupKeys(rows))
    IN [g \in DOMAIN keys |->
          [center |-> keys[g], count |-> GroupSize(rows, keys[g])]]

Counts(df) == [g \in DOMAIN df |-> df[g].count]

(***************************************************************************)
(* lines 87-88: StandardScaler().fit_transform.  With n rows, total T and  *)
(* sum of squares Q:  mean = T/n,  n^2 * var = n*Q - T^2,  and the scaled  *)
(* value of x is (n*x - T) / sqrt(n^2 * var).  A zero scale is replaced by *)
(* 1.0 (sklearn's _handle_zeros_in_scale), which makes the unit n.         *)
(***************************************************************************)
no_zero_handling(var_n2, n) == var_n2

handle_zeros_in_scale(var_n2, n) == IF var_n2 = 0 THEN n * n ELSE var_n2

NoArray == [num |-> <<>>, unit2 |-> 1, finite |-> TRUE]

fit_transform(counts) ==
    LET n == Len(counts)
        total == SeqSum(counts)
        sumsq == SeqSum([j \in DOMAIN counts |-> counts[j] * counts[j]])
        unit2 == handle_zeros_in_scale(n * sumsq - total * total, n)
    IN IF n = 0
       THEN [error |-> "Found array with 0 sample(s)", X |-> NoArray]
       ELSE [error |-> "",
             X |-> [num |-> [j \in DOMAIN counts |-> n * counts[j] - total],
                    unit2 |-> unit2,
                    finite |-> unit2 # 0]]   \* x / 0.0 is nan or inf

(***************************************************************************)
(* KMeans(n_clusters=k, random_state=42): k-means++ seeding drawn from a   *)
(* generator seeded afresh by the integer random_state, then Lloyd's       *)
(* iterations.  The generator is a linear congruential one: the model      *)
(* needs a fixed stream per seed, not numpy's particular stream, so a      *)
(* property that depends on which seeds are drawn is not settled by it.    *)
(* One initialisation per fit (n_init='auto' with k-means++); iterations   *)
(* run until the labels repeat (the tol test on the center shift is not    *)
(* modelled).                                                              *)
(***************************************************************************)
NextRand(s) == (75 * s + 74) % 65537

\* check_random_state(seed) for an int seed: a new generator seeded by it
check_random_state_shared(seed) == rng

check_random_state(seed) == seed

SqDist(a, b) == (a - b) * (a - b)

Min2(a, b) == IF a < b THEN a ELSE b

\* searchsorted(cumsum(closest), r): the first index whose cumulative sum exceeds r
RECURSIVE Searchsorted(_, _, _)
Searchsorted(closest, r, j) ==
    IF j >= Len(closest) THEN Len(closest)
    ELSE IF r < closest[j] THEN j
    ELSE Searchsorted(closest, r - closest[j], j + 1)

\* a candidate drawn with probability proportional to its squared distance to
\* the nearest center chosen so far
PickCandidate(closest, pot, s) ==
    IF pot = 0 THEN 1 ELSE Searchsorted(closest, s % pot, 1)

MinWith(X, closest, cand) ==
    [j \in DOMAIN X |-> Min2(closest[j], SqDist(X[j], X[cand]))]

\* 2 + int(log(k))
LocalTrials(k) == IF k < 3 THEN 2 ELSE IF k < 8 THEN 3 ELSE IF k < 21 THEN 4 ELSE 5

\* the candidate, of n_local_trials drawn, that leaves the least potential
RECURSIVE BestCandidate(_, _, _, _, _, _)
BestCandidate(X, closest, pot, s, trials, best) ==
    IF trials = 0 THEN [cand |-> best.cand, rng |-> s]
    ELSE LET s1 == NextRand(s)
             cand == PickCandidate(closest, pot, s1)
             newpot == SeqSum(MinWith(X, closest, cand))
         IN BestCandidate(X, closest, pot, s1, trials - 1,
                IF best.cand = 0 \/ newpot < best.pot
                THEN [cand |-> cand, pot |-> newpot] ELSE best)

RECURSIVE PlusPlus(_, _, _, _, _)
PlusPlus(X, k, chosen, closest, s) ==
    IF Len(chosen) >= k THEN [chosen |-> chosen, rng |-> s]
    ELSE LET b == BestCandidate(X, closest, SeqSum(closest), s, LocalTrials(k),
                                [cand |-> 0, pot |-> 0])
         IN PlusPlus(X, k, Append(chosen, b.cand), MinWith(X, closest, b.cand), b.rng)

kmeans_plusplus(X, k, s0) ==
    LET s1 == NextRand(s0)
        first == (s1 % Len(X)) + 1
    IN PlusPlus(X, k, <<first>>, [j \in DOMAIN X |-> SqDist(X[j], X[first])], s1)

(***************************************************************************)
(* Lloyd's iterations.  A center is the mean s/m of its members, kept as   *)
(* the pair [s, m]; labels are 0-based positions in the list of centers.   *)
(***************************************************************************)
Start(X, j) == [s |-> X[j], m |-> 1]

\* the k seeds as the initial centers
InitialCentersShort(X, chosen, k) == [c \in 1..(k - 1) |-> Start(X, chosen[c])]

InitialCenters(X, chosen, k) == [c \in 1..k |-> Start(X, chosen[c])]

\* x is strictly nearer to c1 than to c2
Closer(x, c1, c2) == Abs(x * c1.m - c1.s) * c2.m < Abs(x * c2.m - c2.s) * c1.m

\* argmin over the centers; the first of equally near centers wins
RECURSIVE ArgMin(_, _, _, _)
ArgMin(x, centers, j, best) ==
    IF j > Len(centers) THEN best
    ELSE ArgMin(x, centers, j + 1,
                IF Closer(x, centers[j], centers[best]) THEN j ELSE best)

LabelOf(x, centers) == ArgMin(x, centers, 2, 1) - 1

Members(labels, c) == {j \in DOMAIN labels : labels[j] = c}

SumOver(X, S) == SeqSum([j \in DOMAIN X |-> IF j \in S THEN X[j] ELSE 0])

\* point p lies farther from its center than point q from its own
\* (equally far: the later row counts as farther)
FartherThan(X, centers, labels, p, q) ==
    LET cp == centers[labels[p] + 1]
        cq == centers[labels[q] + 1]
        dp == Abs(X[p] * cp.m - cp.s) * cq.m
        dq == Abs(X[q] * cq.m - cq.s) * cp.m
    IN dp > dq \/ (dp = dq /\ p > q)

\* the `need` points farthest from their centers, farthest first
RECURSIVE FarPoints(_, _, _, _, _)
FarPoints(X, centers, labels, taken, need) ==
    LET cand == DOMAIN X \ taken
    IN IF need = 0 \/ cand = {} THEN <<>>
       ELSE LET p == CHOOSE p \in cand :
                        \A q \in cand \ {p} : FartherThan(X, centers, labels, p, q)
            IN <<p>> \o FarPoints(X, centers, labels, taken \cup {p}, need - 1)

\* The M-step.  An empty cluster is relocated onto one of the points farthest
\* from their centers, and that point is taken out of the cluster it was in
\* (sklearn's _relocate_empty_clusters_dense).  A cluster emptied by that
\* keeps its previous center.
MStep(X, centers, labels) ==
    LET k == Len(centers)
        empties == SetToSortedSeq({c \in 1..k : Members(labels, c - 1) = {}})
        far == FarPoints(X, centers, labels, {}, Len(empties))
        moved == {far[e] : e \in DOMAIN far}
        center(c) ==
            LET S == Members(labels, c - 1)
                e == CHOOSE e \in DOMAIN empties : empties[e] = c
            IN IF S = {}
               THEN IF e \in DOMAIN far THEN Start(X, far[e]) ELSE centers[c]
               ELSE IF S \ moved = {} THEN centers[c]
               ELSE [s |-> SumOver(X, S \ moved), m |-> Cardinality(S \ moved)]
    IN [c \in 1..k |-> center(c)]

\* one iteration: labels from the centers, then the centers from the labels;
\* stops when the labels repeat (max_iter = 300 otherwise)
RECURSIVE Lloyd(_, _, _, _)
Lloyd(X, centers, labels_old, iters_left) ==
    LET labels == [j \in DOMAIN X |-> LabelOf(X[j], centers)]
    IN IF labels = labels_old \/ iters_left = 0 THEN labels
       ELSE Lloyd(X, MStep(X, centers, labels), labels, iters_left - 1)

\* inertia_: the sum of squared distances of the points to the mean of their
\* cluster, in units of 1 / (Lcm * var); m*Q - S^2 is a multiple of n^2
\* because every X[j] is n*x - T
Inertia(X, labels, k) ==
    LET n == Len(X)
        term(c) ==
            LET S == Members(labels, c)
                m == Cardinality(S)
                q == SeqSum([j \in DOMAIN X |-> IF j \in S THEN X[j] * X[j] ELSE 0])
                t == SumOver(X, S)
            IN IF m = 0 THEN 0
               ELSE ((m * q - t * t) \div (n * n)) * (LcmUpTo(n) \div m)
    IN SeqSum([c \in 1..k |-> term(c - 1)])

\* _check_params_vs_input: n_samples must be >= n_clusters
check_params_lenient(n_samples, k) == TRUE

check_params_vs_input(n_samples, k) == n_samples >= k

NoEstimator == [error |-> "", n_clusters |-> None, labels_ |-> <<>>, inertia_ |-> 0,
                rng |-> 0]

Raised(text, k, s0) == [NoEstimator EXCEPT !.error = text, !.n_clusters = k, !.rng = s0]

\* KMeans(n_clusters=k, random_state=...).fit(X), from generator state s0
KMeansFit(X, k, s0) ==
    IF k < 1 THEN Raised("n_clusters must be an int in the range [1, inf)", k, s0)
    ELSE IF Len(X.num) = 0 THEN Raised("Found array with 0 sample(s)", k, s0)
    ELSE IF ~X.finite THEN Raised("Input contains NaN", k, s0)
    ELSE IF ~check_params_vs_input(Len(X.num), k)
    THEN Raised("n_samples should be >= n_clusters", k, s0)
    ELSE LET init == kmeans_plusplus(X.num, k, s0)
             centers == InitialCenters(X.num, init.chosen, k)
             labels == Lloyd(X.num, centers, <<>>, 300)
         IN [error |-> "", n_clusters |-> k, labels_ |-> labels,
             inertia_ |-> Inertia(X.num, labels, k), rng |-> init.rng]

(***************************************************************************)
(* line 113: KneeLocator(range(1, 11), wcss, curve='convex',               *)
(* direction='decreasing') with S = 1, offline.  With D = max(y) - min(y)  *)
(* and N points, the difference curve y_difference[j], times (N-1)*D, is   *)
(*     d[j] = (N-1) * (max(y) - y[j]) - (j-1) * D.                         *)
(* D = 0 makes every normalised value nan, so no extremum is found.        *)
(***************************************************************************)
DifferenceCurve(y) ==
    LET N == Len(y)
        ymax == MaxOf({y[j] : j \in DOMAIN y})
        ymin == MinOf({y[j] : j \in DOMAIN y})
    IN [j \in DOMAIN y |-> (N - 1) * (ymax - y[j]) - (j - 1) * (ymax - ymin)]

Clip(j, N) == IF j < 1 THEN 1 ELSE IF j > N THEN N ELSE j

\* argrelextrema(d, np.greater_equal) and (d, np.less_equal), mode='clip'
IsMaximum(d, j) == d[j] >= d[Clip(j - 1, Len(d))] /\ d[j] >= d[Clip(j + 1, Len(d))]

IsMinimum(d, j) == d[j] <= d[Clip(j - 1, Len(d))] /\ d[j] <= d[Clip(j + 1, Len(d))]

\* find_knee's traversal from position j with the threshold in force
RECURSIVE Traverse(_, _, _, _, _)
Traverse(d, D, j, threshold, threshold_index) ==
    IF j >= Len(d) THEN None
    ELSE LET at_max == IsMaximum(d, j)
             th == IF IsMinimum(d, j) THEN 0
                   ELSE IF at_max THEN d[j] - D ELSE threshold
             ti == IF at_max THEN j ELSE threshold_index
         IN IF d[j + 1] < th THEN ti
            ELSE Traverse(d, D, j + 1, th, ti)

KneeLocator(y) ==
    LET d == DifferenceCurve(y)
        D == MaxOf({y[j] : j \in DOMAIN y}) - MinOf({y[j] : j \in DOMAIN y})
        maxima == {j \in DOMAIN d : IsMaximum(d, j)}
    IN IF D = 0 \/ maxima = {} THEN None
       ELSE Traverse(d, D, MinOf(maxima), 0, MinOf(maxima))

(***************************************************************************)
(* line 118: st.sidebar.slider(min_value=2, max_value=10, value=...).      *)
(* A value outside [min_value, max_value] raises StreamlitAPIException;    *)
(* the widget returns what the user set, and the default before that.      *)
(***************************************************************************)
slider_default_only(min_value, max_value, value, session) ==
    IF value < min_value \/ value > max_value
    THEN [error |-> "slider value out of range", value |-> None]
    ELSE [error |-> "", value |-> value]

slider(min_value, max_value, value, session) ==
    IF value < min_value \/ value > max_value
    THEN [error |-> "slider value out of range", value |-> None]
    ELSE [error |-> "", value |-> IF session # None THEN session ELSE value]

\* line 122: grouped_df['Cluster'] = labels
AssignColumnTail(df, labels) ==
    [g \in 1..(Len(df) - 1) |->
        [center |-> df[g + 1].center, count |-> df[g + 1].count, Cluster |-> labels[g + 1]]]

AssignColumn(df, labels) ==
    [g \in DOMAIN df |->
        [center |-> df[g].center, count |-> df[g].count, Cluster |-> labels[g]]]

(***************************************************************************)
(* The uploaded files the model enumerates.                                *)
(***************************************************************************)
RECURSIVE Repeat(_, _)
Repeat(x, times) == IF times <= 0 THEN <<>> ELSE <<x>> \o Repeat(x, times - 1)

\* a file in which center c has 1 + (c % m) beneficiaries; the rows of the
\* last center come first
RECURSIVE PatternRows(_, _)
PatternRows(c, m) ==
    IF c = 0 THEN <<>> ELSE Repeat(c, 1 + (c % m)) \o PatternRows(c - 1, m)

\* a file in which center c has loads[c] beneficiaries
RECURSIVE LoadRows(_, _)
LoadRows(loads, c) ==
    IF c = 0 THEN <<>> ELSE Repeat(c, loads[c]) \o LoadRows(loads, c - 1)

SmallRows == UNION {[1..len -> {NaN, 1, 2}] : len \in 0..MaxSmallLen}

File(columns, rows) ==
    [present |-> TRUE, readable |-> TRUE, columns |-> columns, rows |-> rows]

Unreadable == [NoFile EXCEPT !.present = TRUE]

PaddedColumns == << <<" ", "Wellness Center", " ">>, <<"City", " ">> >>

ExcelFiles ==
    {NoFile, Unreadable,
     File(<< <<"wellnessCentreName", " ">>, <<"Address">> >>, <<1>>),
     File(<< <<"Address">> >>, <<1>>),
     File(<< <<"Wellness Center">> >>, <<>>)}

CsvFiles ==
    {NoFile, Unreadable}
    \cup {File(cols, rows) :
            cols \in {<<WellnessCenter, City>>, PaddedColumns, <<WellnessCenter>>},
            rows \in SmallRows}
    \cup {File(PaddedColumns, PatternRows(n, m)) : n \in 1..MaxCenters, m \in 1..MaxMod}

NoPrev == [n_clusters |-> None, grouped_df |-> <<>>, wcss |-> <<>>]

\* the script's variables before its first statement
ScriptStart ==
    /\ centers_df = EmptyFrame
    /\ beneficiaries_df = EmptyFrame
    /\ grouped_df = <<>>
    /\ X_scaled = NoArray
    /\ wcss = <<>>
    /\ kmeans = NoEstimator
    /\ optimal_k = None
    /\ n_clusters = None
    /\ messages = <<>>

Init ==
    /\ uploaded_excel \in ExcelFiles
    /\ uploaded_csv \in CsvFiles
    /\ ScriptStart
    /\ slider_state = None
    /\ rng = 0
    /\ pc = "load"
    /\ runs = 1
    /\ prev = NoPrev

(***************************************************************************)
(* The script, statement group by statement group.                         *)
(***************************************************************************)
Show(level, text) == Append(messages, <<level, text>>)

\* lines 151-152: except Exception as e: st.error("Clustering failed: ...")
ClusteringFailed(text) ==
    /\ messages' = Show("error", text)
    /\ pc' = "failed"

\* lines 19-37
LoadData ==
    /\ pc = "load"
    /\ LET loaded == load_data(uploaded_excel, uploaded_csv)
       IN /\ centers_df' = loaded.centers
          /\ beneficiaries_df' = loaded.beneficiaries
          /\ messages' = messages \o loaded.shown
    /\ pc' = "rename"
    /\ UNCHANGED <<uploaded_excel, uploaded_csv, grouped_df, X_scaled, wcss, kmeans,
                   optimal_k, n_clusters, slider_state, rng, runs, prev>>

\* lines 40-44
RenameCenterColumn ==
    /\ pc = "rename"
    /\ centers_df' = RenameCenter(centers_df)
    /\ pc' = "require_upload"
    /\ UNCHANGED <<uploaded_excel, uploaded_csv, beneficiaries_df, grouped_df, X_scaled,
                   wcss, kmeans, optimal_k, n_clusters, slider_state, rng, messages,
                   runs, prev>>

\* lines 61-63
RequireUpload ==
    /\ pc = "require_upload"
    /\ IF ~uploaded_excel.present \/ ~uploaded_csv.present
       THEN /\ messages' = Show("info", "Please upload both required files to continue.")
            /\ pc' = "stopped"
       ELSE /\ messages' = messages
            /\ pc' = "check_centers"
    /\ UNCHANGED <<uploaded_excel, uploaded_csv, centers_df, beneficiaries_df, grouped_df,
                   X_scaled, wcss, kmeans, optimal_k, n_clusters, slider_state, rng,
                   runs, prev>>

\* lines 66-67
CheckCenters ==
    /\ pc = "check_centers"
    /\ LET checked == check_required_columns(centers_df, {WellnessCenter}, "Centers Data")
       IN IF checked.ok
          THEN /\ messages' = messages
               /\ pc' = "check_beneficiaries"
          ELSE /\ messages' = Append(messages, checked.shown)
               /\ pc' = "stopped"
    /\ UNCHANGED <<uploaded_excel, uploaded_csv, centers_df, beneficiaries_df, grouped_df,
                   X_scaled, wcss, kmeans, optimal_k, n_clusters, slider_state, rng,
                   runs, prev>>

\* lines 68-71
CheckBeneficiaries ==
    /\ pc = "check_beneficiaries"
    /\ LET checked == check_required_columns(beneficiaries_df, {WellnessCenter, City},
                                             "Beneficiaries Data")
       IN IF checked.ok
          THEN /\ messages' = Show("success", "Data loaded successfully!")
               /\ pc' = "aggregate"
          ELSE /\ messages' = Append(messages, checked.shown)
               /\ pc' = "stopped"
    /\ UNCHANGED <<uploaded_excel, uploaded_csv, centers_df, beneficiaries_df, grouped_df,
                   X_scaled, wcss, kmeans, optimal_k, n_clusters, slider_state, rng,
                   runs, prev>>

\* line 84
Aggregate ==
    /\ pc = "aggregate"
    /\ grouped_df' = groupby_size(beneficiaries_df.rows)
    /\ pc' = "scale"
    /\ UNCHANGED <<uploaded_excel, uploaded_csv, centers_df, beneficiaries_df, X_scaled,
                   wcss, kmeans, optimal_k, n_clusters, slider_state, rng, messages,
                   runs, prev>>

\* lines 87-88
Scale ==
    /\ pc = "scale"
    /\ LET scaled == fit_transform(Counts(grouped_df))
       IN IF scaled.error # ""
          THEN /\ ClusteringFailed(scaled.error)
               /\ X_scaled' = X_scaled
          ELSE /\ X_scaled' = scaled.X
               /\ messages' = messages
               /\ pc' = "elbow"
    /\ UNCHANGED <<uploaded_excel, uploaded_csv, centers_df, beneficiaries_df, grouped_df,
                   wcss, kmeans, optimal_k, n_clusters, slider_state, rng, runs, prev>>

\* lines 93-96: one iteration of the loop of calculate_wcss, with i = len(wcss) + 1
CalculateWcssStep ==
    /\ pc = "elbow"
    /\ Len(wcss) + 1 < SweepStop
    /\ LET fitted == KMeansFit(X_scaled, Len(wcss) + 1, check_random_state(random_state))
       IN /\ kmeans' = fitted
          /\ rng' = fitted.rng
          /\ IF fitted.error # ""
             THEN /\ ClusteringFailed(fitted.error)
                  /\ wcss' = wcss
             ELSE /\ wcss' = Append(wcss, fitted.inertia_)
                  /\ messages' = messages
                  /\ pc' = pc
    /\ UNCHANGED <<uploaded_excel, uploaded_csv, centers_df, beneficiaries_df, grouped_df,
                   X_scaled, optimal_k, n_clusters, slider_state, runs, prev>>

\* lines 97-115: the sweep returns; the elbow chart and the knee suggestion
SuggestKnee ==
    /\ pc = "elbow"
    /\ Len(wcss) + 1 >= SweepStop
    /\ optimal_k' = KneeLocator(wcss)
    /\ messages' = Show("info", "Suggested optimal number of clusters")
    /\ pc' = "slider"
    /\ UNCHANGED <<uploaded_excel, uploaded_csv, centers_df, beneficiaries_df, grouped_df,
                   X_scaled, wcss, kmeans, n_clusters, slider_state, rng, runs, prev>>

\* line 118
SelectClusters ==
    /\ pc = "slider"
    /\ LET chosen == slider(SliderMin, SliderMax,
                            IF optimal_k # None THEN optimal_k ELSE DefaultK,
                            slider_state)
       IN IF chosen.error # ""
          THEN /\ ClusteringFailed(chosen.error)
               /\ n_clusters' = n_clusters
          ELSE /\ n_clusters' = chosen.value
               /\ messages' = messages
               /\ pc' = "assign"
    /\ UNCHANGED <<uploaded_excel, uploaded_csv, centers_df, beneficiaries_df, grouped_df,
                   X_scaled, wcss, kmeans, optimal_k, slider_state, rng, runs, prev>>

\* lines 121-149
AssignClusters ==
    /\ pc = "assign"
    /\ LET fitted == KMeansFit(X_scaled, n_clusters, check_random_state(random_state))
       IN /\ kmeans' = fitted
          /\ rng' = fitted.rng
          /\ IF fitted.error # ""
             THEN /\ ClusteringFailed(fitted.error)
                  /\ grouped_df' = grouped_df
             ELSE /\ grouped_df' = AssignColumn(grouped_df, fitted.labels_)
                  /\ messages' = messages
                  /\ pc' = "done"
    /\ UNCHANGED <<uploaded_excel, uploaded_csv, centers_df, beneficiaries_df, X_scaled,
                   wcss, optimal_k, n_clusters, slider_state, runs, prev>>

\* The user sets the slider (or asks for a rerun): Streamlit runs the script
\* again from the top with the same uploaded files.
Rerun ==
    /\ pc = "done"
    /\ runs < MaxRuns
    /\ \E v \in SliderMin..SliderMax : slider_state' = v
    /\ prev' = [n_clusters |-> n_clusters, grouped_df |-> grouped_df, wcss |-> wcss]
    /\ runs' = runs + 1
    /\ centers_df' = EmptyFrame
    /\ beneficiaries_df' = EmptyFrame
    /\ grouped_df' = <<>>
    /\ X_scaled' = NoArray
    /\ wcss' = <<>>
    /\ kmeans' = NoEstimator
    /\ optimal_k' = None
    /\ n_clusters' = None
    /\ messages' = <<>>
    /\ pc' = "load"
    /\ UNCHANGED <<uploaded_excel, uploaded_csv, rng>>

Next ==
    \/ LoadData
    \/ RenameCenterColumn
    \/ RequireUpload
    \/ CheckCenters
    \/ CheckBeneficiaries
    \/ Aggregate
    \/ Scale
    \/ CalculateWcssStep
    \/ SuggestKnee
    \/ SelectClusters
    \/ AssignClusters
    \/ Rerun

Spec == Init /\ [][Next]_vars

(***************************************************************************)
(* The cluster assigner on its own: lines 121-122 applied to the scaled    *)
(* counts of any small set of entities and any requested cluster count.    *)
(***************************************************************************)
AssignerLoads ==
    UNION {[1..n -> 1..MaxAssignCount] : n \in 1..MaxAssignN}

InitAssign ==
    /\ \E loads \in AssignerLoads :
          /\ uploaded_csv = File(PaddedColumns, LoadRows(loads, Len(loads)))
          /\ beneficiaries_df = StripColumns(uploaded_csv)
          /\ grouped_df = groupby_size(beneficiaries_df.rows)
          /\ X_scaled = fit_transform(Counts(grouped_df)).X
    /\ uploaded_excel = File(<< <<"Wellness Center">> >>, <<1>>)
    /\ centers_df = StripColumns(uploaded_excel)
    /\ n_clusters \in 0..(MaxAssignN + 1)
    /\ wcss = <<>>
    /\ kmeans = NoEstimator
    /\ optimal_k = None
    /\ slider_state = None
    /\ rng = 0
    /\ messages = <<>>
    /\ pc = "assign"
    /\ runs = 1
    /\ prev = NoPrev

NextAssign == AssignClusters

SpecAssign == InitAssign /\ [][NextAssign]_vars

(***************************************************************************)
(* Properties.                                                             *)
(***************************************************************************)
Records == beneficiaries_df.rows

\* the records naming center c
Naming(c) == {r \in DOMAIN Records : Records[r] = c}

NamedCenters == {Records[r] : r \in DOMAIN Records} \ {NaN}

RowsOf(c) == {g \in DOMAIN grouped_df : grouped_df[g].center = c}

\* line 84 has been executed in this run
Aggregated == pc \in {"scale", "elbow", "slider", "assign", "done", "failed"}

\* lines 87-88 have been executed in this run without raising
Scaled == Aggregated /\ pc # "scale" /\ Len(X_scaled.num) = Len(grouped_df)
          /\ grouped_df # <<>>

LastMessage == IF messages = <<>> THEN <<>> ELSE messages[Len(messages)]

OneRowPerNamedCenter ==
    /\ \A c \in NamedCenters :
          /\ Cardinality(RowsOf(c)) = 1
          /\ \A g \in RowsOf(c) : grouped_df[g].count = Cardinality(Naming(c))
    /\ \A g \in DOMAIN grouped_df : grouped_df[g].center \in NamedCenters

\* C1 as stated: after the aggregation there is exactly one row per distinct
\* center, its count is the number of records naming that center, and the
\* counts sum to the number of records.
C1_CountsSumToRecords ==
    Aggregated =>
        /\ OneRowPerNamedCenter
        /\ SeqSum(Counts(grouped_df)) = Len(Records)

\* C1 amended: after the aggregation there is exactly one row per distinct
\* center named by a record, its count is the number of records naming that
\* center, and the counts sum to the number of records that name a center
\* (records with a missing center are left out).
C1_CountsSumToNamedRecords ==
    Aggregated =>
        /\ OneRowPerNamedCenter
        /\ SeqSum(Counts(grouped_df)) = Len(Records) - Cardinality(Naming(NaN))

C1_Witness ==
    /\ Aggregated
    /\ Naming(NaN) # {}
    /\ Cardinality(NamedCenters) = 2
    /\ \E g \in DOMAIN grouped_df : grouped_df[g].count > 1

HasNoClusterColumn == \A g \in DOMAIN grouped_df : DOMAIN grouped_df[g] = {"center", "count"}

\* C2: a cluster count below 1 or above the number of entities makes the
\* assignment raise, the error is shown to the user and no labels are
\* produced; a count within the range is used as given (never clamped).
C2_StrictClusterCount ==
    pc # "assign" =>
        IF n_clusters < 1 \/ n_clusters > Len(grouped_df)
        THEN /\ pc = "failed"
             /\ kmeans.error \in {"n_clusters must be an int in the range [1, inf)",
                                  "n_samples should be >= n_clusters"}
             /\ LastMessage = <<"error", kmeans.error>>
             /\ kmeans.labels_ = <<>>
             /\ HasNoClusterColumn
        ELSE /\ pc = "done"
             /\ kmeans.n_clusters = n_clusters
             /\ \A g \in DOMAIN grouped_df : grouped_df[g].Cluster \in 0..(n_clusters - 1)

C2_Witness ==
    /\ pc = "failed"
    /\ Len(grouped_df) = 1
    /\ n_clusters = 2
    /\ LastMessage = <<"error", "n_samples should be >= n_clusters">>

\* C3: the sweep never records a WCSS value for a k above the number of
\* entities; with fewer entities than the sweep's largest k the run ends in
\* the explicit error of the fit, shown to the user, and no knee, slider or
\* assignment stage follows.
C3_SweepStopsAtEntityCount ==
    /\ Len(wcss) <= Len(grouped_df)
    /\ (Scaled /\ Len(grouped_df) + 1 < SweepStop /\ pc # "elbow") =>
          /\ pc = "failed"
          /\ Len(wcss) = Len(grouped_df)
          /\ LastMessage = <<"error", "n_samples should be >= n_clusters">>

C3_Witness ==
    /\ pc = "failed"
    /\ Len(grouped_df) = 2
    /\ Len(wcss) = 2
    /\ kmeans.n_clusters = 3

\* C4: when the assignment is done the table has exactly one row per
\* aggregated entity (same ids, no duplicate, no omission, same length as the
\* scaled input) and every label is in 0..k-1.
C4_OneLabelledRowPerEntity ==
    pc = "done" =>
        /\ {grouped_df[g].center : g \in DOMAIN grouped_df} = NamedCenters
        /\ Len(grouped_df) = Cardinality(NamedCenters)
        /\ Len(grouped_df) = Len(X_scaled.num)
        /\ \A g \in DOMAIN grouped_df : grouped_df[g].Cluster \in 0..(n_clusters - 1)

C4_Witness ==
    /\ pc = "done"
    /\ n_clusters > 2
    /\ Cardinality({grouped_df[g].Cluster : g \in DOMAIN grouped_df}) > 2

SamePartition(a, b) ==
    /\ Len(a) = Len(b)
    /\ \A g, h \in DOMAIN a :
          (a[g].Cluster = a[h].Cluster) <=> (b[g].Cluster = b[h].Cluster)

\* C5: a run that assigns with the same data and the same k as the run
\* before it produces the same partition (and the same sweep values).
C5_SameSeedSamePartition ==
    (pc = "done" /\ runs > 1 /\ prev.n_clusters = n_clusters) =>
        /\ SamePartition(prev.grouped_df, grouped_df)
        /\ prev.wcss = wcss

C5_Witness ==
    /\ pc = "done"
    /\ runs > 1
    /\ prev.n_clusters = n_clusters
    /\ Cardinality({grouped_df[g].Cluster : g \in DOMAIN grouped_df}) > 2

\* no record of the uploaded beneficiaries file names a center
NoEntities == \A r \in DOMAIN uploaded_csv.rows : uploaded_csv.rows[r] = NaN

\* C7: with zero entities the run never gets into scaling, the sweep or the
\* assignment, and never ends in the error handler of the clustering block.
C7_EmptyShortCircuits ==
    NoEntities => pc \notin {"elbow", "slider", "assign", "done", "failed"}

ZeroVariance ==
    /\ grouped_df # <<>>
    /\ \A g, h \in DOMAIN grouped_df : grouped_df[g].count = grouped_df[h].count

\* C8: when all entity counts are identical, scaling completes and every
\* scaled value is a defined zero.
C8_ZeroVarianceScalesToZeros ==
    (Aggregated /\ pc # "scale" /\ ZeroVariance) =>
        /\ Len(X_scaled.num) = Len(grouped_df)
        /\ X_scaled.finite
        /\ X_scaled.unit2 > 0
        /\ \A j \in DOMAIN X_scaled.num : X_scaled.num[j] = 0

C8_Witness ==
    /\ pc = "elbow"
    /\ Len(grouped_df) = 1
    /\ X_scaled.num = <<0>>

\* C9: the k of the final assignment is the slider's value: what the user
\* set, or before that the suggestion, or 3 when there is no suggestion.
C9_SuggestionIsAdvisory ==
    /\ pc \in {"assign", "done"} =>
          n_clusters = IF slider_state # None THEN slider_state
                       ELSE IF optimal_k # None THEN optimal_k ELSE DefaultK
    /\ pc = "done" =>
          /\ kmeans.n_clusters = n_clusters
          /\ \A g \in DOMAIN grouped_df : grouped_df[g].Cluster = kmeans.labels_[g]

C9_Witness ==
    /\ pc = "done"
    /\ optimal_k # None
    /\ slider_state # None
    /\ slider_state # optimal_k
    /\ kmeans.n_clusters = slider_state

Fitted == kmeans.error = "" /\ kmeans.n_clusters >= 1

DistinctCounts ==
    \A g, h \in DOMAIN grouped_df :
        grouped_df[g].count = grouped_df[h].count => g = h

SingleCluster == \A j \in DOMAIN kmeans.labels_ : kmeans.labels_[j] = 0

EveryLabelOnce ==
    \A c \in 0..(kmeans.n_clusters - 1) : Cardinality(Members(kmeans.labels_, c)) = 1

\* C10 as stated: a fit with k = 1 puts all entities in one cluster, and a
\* fit with k = number of entities uses every label exactly once, whatever
\* the entity counts.
C10_BoundaryCounts ==
    Fitted =>
        /\ kmeans.n_clusters = 1 => SingleCluster
        /\ kmeans.n_clusters = Len(grouped_df) => EveryLabelOnce

\* C10 amended: a fit with k = 1 puts all entities in one cluster, and a fit
\* with k = number of entities uses every label exactly once when the entity
\* counts are pairwise distinct.
C10_BoundaryCountsDistinct ==
    Fitted =>
        /\ kmeans.n_clusters = 1 => SingleCluster
        /\ (kmeans.n_clusters = Len(grouped_df) /\ DistinctCounts) => EveryLabelOnce

C10_Witness ==
    /\ pc = "done"
    /\ n_clusters = Len(grouped_df)
    /\ DistinctCounts
    /\ EveryLabelOnce

====
